---- MODULE Spec2Model ----
(***************************************************************************)
(* A model of the dual-drone runtime: the CommunicationBridge router, the  *)
(* MockLoRaTransceiver endpoints, the BaseDroneController control loop     *)
(* with its persistence and communication threads, and the                 *)
(* SampleDroneController.compute_control policy.                           *)
(*                                                                         *)
(* Units.  Positions and lidar points are whole metres.  Velocities are    *)
(* held in thousandths of a metre per second (milli), so that the          *)
(* constants 0.5, 1.0, 2.0, 3 of the policy are 500, 1000, 2000, 3000.     *)
(* A float NaN is the value NaN below, outside every velocity range.       *)
(***************************************************************************)
EXTENDS Integers, Sequences, FiniteSets, TLC

VARIABLES
    \* ---- per agent process (BaseDroneController / SampleDroneController)
    pc,                     \* where the agent process is
    communication_pipe,     \* self.communication_pipe: the kind of endpoint object
    running,                \* self.running
    timestep,               \* self.timestep
    mode,                   \* self.mode
    other_drone_position,   \* self.other_drone_position
    message_queue,          \* self.message_queue
    sensor_data_queue,      \* self.sensor_data_queue
    telemetry_data,         \* self.telemetry_data
    data_collection_thread, \* self.data_collection_thread
    comm_thread,            \* self.comm_thread
    comm_error,             \* communication_loop is in its except clause
    enqueued,               \* the timesteps of the frames put on sensor_data_queue
    loop_error,             \* the call whose exception ended the while loop of control_loop
    cleanup_error,          \* the call of cleanup that raised or did not return
    last,                   \* the last compute_control call of the agent
    \* ---- inputs of a policy evaluation (SpecPolicy)
    sensor_in,              \* the frame handed to compute_control
    messages_in,            \* the messages handed to compute_control
    \* ---- the pipes and the bridge process (CommunicationBridge)
    clock,                  \* time.time(), counted in envelopes created
    toBridge,               \* child -> parent direction of each pipe
    toDrone,                \* parent -> child direction of each pipe
    bridge,                 \* the bridge process: its loop position and logs
    \* ---- the supervisor (launch_dual_drones.main)
    main                    \* the process of main(): its position, and whether
                            \* signal_handler has run

vars == <<pc, communication_pipe, running, timestep, mode, other_drone_position,
          message_queue, sensor_data_queue, telemetry_data,
          data_collection_thread, comm_thread, comm_error, enqueued,
          loop_error, cleanup_error, last, sensor_in, messages_in, clock, toBridge,
          toDrone, bridge, main>>

policyVars == <<mode, other_drone_position, last>>

threadVars == <<data_collection_thread, comm_thread, comm_error>>

inputVars == <<sensor_in, messages_in>>

bridgeVars == <<clock, toBridge, toDrone, bridge>>

----------------------------------------------------------------------------
\* Names and values

\* drone_names of main(), in the order the bridge's dict iterates them
drone_names == <<"Drone1", "Drone2">>

Drones == {drone_names[i] : i \in 1..Len(drone_names)}

\* Python's None
None == [none |-> TRUE]

\* a float that is not a number (0.0/0.0 in numpy arithmetic)
NaN == -999999

Modes == {"hover", "explore", "avoid"}

\* target_altitude=-10.0 and safe_distance=5.0 of run_drone_controller
target_altitude == -10

safe_distance == 5

Pos(x, y, z) == [x |-> x, y |-> y, z |-> z]

----------------------------------------------------------------------------
\* Arithmetic of the policy, in milli units

RECURSIVE SqrtSearch(_, _, _)
SqrtSearch(n, lo, hi) ==
    IF lo >= hi THEN lo
    ELSE LET mid == (lo + hi + 1) \div 2
         IN  IF mid * mid <= n THEN SqrtSearch(n, mid, hi)
             ELSE SqrtSearch(n, lo, mid - 1)

\* floor of the square root of n >= 0
ISqrt(n) == SqrtSearch(n, 0, 46340)

\* integer division rounding toward zero (the sign of the quotient is kept)
DivTrunc(a, b) == IF a >= 0 THEN a \div b ELSE -((-a) \div b)

\* np.clip(v, lo, hi); a NaN passes through np.clip unchanged
Clip(v, lo, hi) ==
    IF v = NaN THEN NaN
    ELSE IF v < lo THEN lo
    ELSE IF v > hi THEN hi
    ELSE v

\* 10^6 * cos(n/10) and 10^6 * sin(n/10) by their Taylor series in Horner
\* form (accurate to a milli for n <= 20, the timesteps of this model)
CosMicro(n) ==
    LET q  == n * n
        a4 == 1000000 - (1000000 * q) \div 5600
        a3 == 1000000 - DivTrunc(a4 * q, 3000)
        a2 == 1000000 - DivTrunc(a3 * q, 1200)
    IN  1000000 - DivTrunc(a2 * q, 200)

SinMicro(n) ==
    LET q  == n * n
        b4 == 1000000 - (1000000 * q) \div 7200
        b3 == 1000000 - DivTrunc(b4 * q, 4200)
        b2 == 1000000 - DivTrunc(b3 * q, 2000)
        b1 == 1000000 - DivTrunc(b2 * q, 600)
    IN  DivTrunc(n * b1, 10)

----------------------------------------------------------------------------
\* SampleDroneController.compute_control

\* A decoded envelope (json.loads of a packet of send_message)
Envelope(ts, s, r, p) == [timestamp |-> ts, sender |-> s, recipient |-> r, payload |-> p]

PositionUpdate(pos, m) == [type |-> "position_update", position |-> pos, mode |-> m]

\* msg["payload"].get("type") == "position_update"
IsPositionUpdate(msg) ==
    /\ "type" \in DOMAIN msg.payload
    /\ msg.payload.type = "position_update"

\* the for loop if it kept the first position_update instead of the last
ProcessMessages_FirstWins(messages, peer) ==
    LET I == {i \in DOMAIN messages :
                "payload" \in DOMAIN messages[i] /\ IsPositionUpdate(messages[i])}
    IN  IF \/ \E i \in DOMAIN messages : "payload" \notin DOMAIN messages[i]
           \/ \E i \in I : "position" \notin DOMAIN messages[i].payload
        THEN [peer |-> peer, raised |-> TRUE]
        ELSE IF I = { } THEN [peer |-> peer, raised |-> FALSE]
        ELSE [peer |-> messages[CHOOSE i \in I : \A j \in I : i <= j].payload.position,
              raised |-> FALSE]

\* the for loop over messages: every position_update overwrites the stored
\* peer position; msg["payload"] or payload["position"] missing raises KeyError
\* and leaves the positions stored so far in place
RECURSIVE ProcessMessages(_, _)
ProcessMessages(messages, peer) ==
    IF messages = <<>> THEN [peer |-> peer, raised |-> FALSE]
    ELSE LET msg == Head(messages)
         IN  IF "payload" \notin DOMAIN msg THEN [peer |-> peer, raised |-> TRUE]
             ELSE IF IsPositionUpdate(msg)
             THEN IF "position" \in DOMAIN msg.payload
                  THEN ProcessMessages(Tail(messages), msg.payload.position)
                  ELSE [peer |-> peer, raised |-> TRUE]
             ELSE ProcessMessages(Tail(messages), peer)

AltitudeVz_UnitGain(target, z) == Clip((target - z) * 1000, -2000, 2000)

\* np.clip(altitude_error * 0.5, -2, 2)
AltitudeVz(target, z) == Clip((target - z) * 500, -2000, 2000)

Norm2(p) == p[1] * p[1] + p[2] * p[2] + p[3] * p[3]

\* points[points[:, 0] > 0]
FrontPoints(points) == SelectSeq(points, LAMBDA p : p[1] > 0)

MinNorm2_First(points) == Norm2(points[1])

RECURSIVE MinNorm2(_)
MinNorm2(points) ==
    IF Len(points) = 1 THEN Norm2(points[1])
    ELSE LET m == MinNorm2(Tail(points))
         IN  IF Norm2(points[1]) < m THEN Norm2(points[1]) ELSE m

\* the lidar block: "none" when it leaves mode and velocities untouched,
\* "avoid" when min_distance < safe_distance, else "explore".
\* min_distance < safe_distance is compared on the squares.
\* a lidar block that fell back to hover when it sees nothing ahead
LidarRule_ToHover(lidar, safe) ==
    IF lidar = None THEN "hover"
    ELSE IF Len(lidar.points) = 0 THEN "hover"
    ELSE IF Len(FrontPoints(lidar.points)) = 0 THEN "hover"
    ELSE IF MinNorm2(FrontPoints(lidar.points)) < safe * safe THEN "avoid"
    ELSE "explore"

LidarRule(lidar, safe) ==
    IF lidar = None THEN "none"
    ELSE IF Len(lidar.points) = 0 THEN "none"
    ELSE IF Len(FrontPoints(lidar.points)) = 0 THEN "none"
    ELSE IF MinNorm2(FrontPoints(lidar.points)) < safe * safe THEN "avoid"
    ELSE "explore"

AvoidSide_Flipped(name) == IF name = "Drone1" THEN -1000 ELSE 1000

\* vy of the obstacle avoidance: 1.0 if drone_name == "Drone1" else -1.0
AvoidSide(name) == IF name = "Drone1" THEN 1000 ELSE -1000

\* distance_to_other < safe_distance * 1.5, on the squares
PeerWithin(d2, safe) == 4 * d2 < 9 * safe * safe

AvoidComponent_Toward(dx, d2) ==
    IF d2 = 0 THEN NaN
    ELSE DivTrunc(dx * 2000000, ISqrt(d2 * 1000000))

\* (-dx / distance_to_other) * 2.0; 0.0/0.0 is NaN
AvoidComponent(dx, d2) ==
    IF d2 = 0 THEN NaN
    ELSE DivTrunc(-dx * 2000000, ISqrt(d2 * 1000000))

\* np.cos(t) * 0.5 and np.sin(t) * 0.5 with t = timestep * 0.1
ExploreVx(ts) == DivTrunc(CosMicro(ts), 2000)

ExploreVy(ts) == DivTrunc(SinMicro(ts), 2000)

\* the recipient of the position update
PeerName(name) == IF name = "Drone1" THEN "Drone2" ELSE "Drone1"

SendDue_AfterStart(ts) == ts # 0 /\ ts % 10 = 0

\* self.timestep % 10 == 0
SendDue(ts) == ts % 10 = 0

ObstacleSteer_XBySide(name) == [x |-> -AvoidSide(name), y |-> AvoidSide(name)]

\* lines 47-51: the obstacle avoidance "move backward and to the side"
ObstacleSteer(name) == [x |-> -1000, y |-> AvoidSide(name)]

\* lines 62-68: avoid_vector * 2.0
PeerSteer(dx, dy, d2) == [x |-> AvoidComponent(dx, d2), y |-> AvoidComponent(dy, d2)]

Steering_FirstMatch(name, lr, near, dx, dy, d2) ==
    IF lr = "avoid" THEN ObstacleSteer(name)
    ELSE IF near THEN PeerSteer(dx, dy, d2)
    ELSE [x |-> 0, y |-> 0]

\* vx, vy before the exploration block: they start at 0, the lidar block
\* assigns them when it selects avoid, and the peer block, which runs after
\* it, assigns them again when the peer is within range
Steering(name, lr, near, dx, dy, d2) ==
    IF near THEN PeerSteer(dx, dy, d2)
    ELSE IF lr = "avoid" THEN ObstacleSteer(name)
    ELSE [x |-> 0, y |-> 0]

\* compute_control(sensor_data, messages) of the controller `name` whose
\* fields are ts (self.timestep), m (self.mode), peer
\* (self.other_drone_position), target and safe.  The result holds the
\* fields after the call, the returned command (None when the call raised)
\* and the arguments of the send_message calls it made.
ComputeControl(name, ts, m, peer, target, safe, sensor_data, messages) ==
    LET pm   == ProcessMessages(messages, peer)
        peer1 == pm.peer
        cur  == sensor_data.telemetry.position
        vz0  == AltitudeVz(target, cur.z)
        lr   == LidarRule(sensor_data.lidar, safe)
        mode1 == IF lr = "none" THEN m ELSE lr
        known == peer1 # None
        dx   == IF known THEN peer1.x - cur.x ELSE 0
        dy   == IF known THEN peer1.y - cur.y ELSE 0
        dz   == IF known THEN peer1.z - cur.z ELSE 0
        d2   == dx * dx + dy * dy + dz * dz
        near == known /\ PeerWithin(d2, safe)
        mode2 == IF near THEN "avoid" ELSE mode1
        v2   == Steering(name, lr, near, dx, dy, d2)
        vx3  == IF mode2 = "explore" THEN ExploreVx(ts) ELSE v2.x
        vy3  == IF mode2 = "explore" THEN ExploreVy(ts) ELSE v2.y
        sent == IF SendDue(ts)
                THEN << [recipient |-> PeerName(name),
                         message |-> PositionUpdate(cur, mode2)] >>
                ELSE << >>
    IN  IF pm.raised
        THEN [raised |-> TRUE, mode |-> m, peer |-> peer1,
              command |-> None, sent |-> << >>]
        ELSE [raised |-> FALSE, mode |-> mode2, peer |-> peer1,
              command |-> [velocity |-> [x |-> Clip(vx3, -3000, 3000),
                                         y |-> Clip(vy3, -3000, 3000),
                                         z |-> Clip(vz0, -2000, 2000)]],
              sent |-> sent]

\* collect_sensor_data: the frame of one tick
Frame(ts, pos, lidar) ==
    [timestep |-> ts, lidar |-> lidar,
     telemetry |-> [timestep |-> ts, position |-> pos]]

\* the record kept of one compute_control call: its inputs and its result
CallRecord(ts, m, peer, sensor_data, messages, res) ==
    [timestep |-> ts, mode0 |-> m, peer0 |-> peer, frame |-> sensor_data,
     messages |-> messages, raised |-> res.raised, mode |-> res.mode,
     peer |-> res.peer, command |-> res.command, sent |-> res.sent]

----------------------------------------------------------------------------
\* Bounds and input sets

\* timesteps at which a policy evaluation is tried: 0..MaxPolicyTick
MaxPolicyTick == 1

PosA == Pos(0, 0, -10)

PosB == Pos(3, 0, -10)

PosC == Pos(0, 0, -15)

PosD == Pos(0, 9, -13)

PosE == Pos(0, -9, -2)

Lidar(points) == [points |-> points]

PolicyLidars ==
    { None,
      Lidar(<< >>),
      Lidar(<< <<2, 0, 0>> >>),
      Lidar(<< <<1, 3, 0>> >>),
      Lidar(<< <<9, 0, 0>>, <<1, -3, 0>> >>),
      Lidar(<< <<-2, 0, 0>> >>),
      Lidar(<< <<9, 0, 0>> >>) }

PolicyMessages ==
    { << >>,
      << Envelope(0, "peer", "self", PositionUpdate(PosB, "hover")) >>,
      << Envelope(0, "peer", "self", PositionUpdate(PosA, "explore")),
         Envelope(1, "peer", "self", PositionUpdate(PosC, "avoid")) >>,
      << Envelope(0, "peer", "self", [type |-> "status"]) >>,
      << Envelope(0, "peer", "self", [type |-> "position_update"]) >>,
      << Envelope(0, "peer", "self", PositionUpdate(None, "hover")) >> }

PolicyPeers == {None, PosA, PosB, PosC}

\* own positions of (Drone1, Drone2): the same place (near and far from the
\* peer positions), 3 apart on x, stacked 5 apart on z, and far apart; their
\* altitudes are at, 3 and 5 below and 8 above the target altitude
PolicyOwn ==
    { [Drone1 |-> PosA, Drone2 |-> PosA],
      [Drone1 |-> PosA, Drone2 |-> PosB],
      [Drone1 |-> PosA, Drone2 |-> PosC],
      [Drone1 |-> PosD, Drone2 |-> PosE],
      [Drone1 |-> PosD, Drone2 |-> PosD] }

----------------------------------------------------------------------------
\* Initial states

\* messages one direction of a pipe holds before Connection.send blocks (the
\* buffer of the operating system)
PipeCapacity == 1

\* Connection.send of n messages into `buffer` returns at once
SendReturns(buffer, n) == n = 0 \/ Len(buffer) + n <= bridge.capacity

\* the pipes of CommunicationBridge.__init__ and the bridge process before
\* start_bridge
InitPipes ==
    /\ clock = 0
    /\ toBridge = [d \in Drones |-> << >>]
    /\ toDrone = [d \in Drones |-> << >>]

\* the process of main() at position `at`, before any signal
MainProcess(at) == [pc |-> at, signal |-> FALSE]

\* main() is not running: the bridge or a controller is used on its own
NoSupervisor == main = MainProcess("absent")

\* held: the message of a send that has not returned, with its endpoints;
\* capacity: what each direction of the pipes made by __init__ holds
BridgeProcess(alive, log) ==
    [alive |-> alive, log_messages |-> log, pos |-> 1, errors |-> 0,
     message_log |-> << >>, forward_log |-> << >>, held |-> None,
     capacity |-> PipeCapacity]

\* the fields BaseDroneController.__init__ and SampleDroneController.__init__ set
InitController ==
    /\ running = [d \in Drones |-> FALSE]
    /\ timestep = [d \in Drones |-> 0]
    /\ mode = [d \in Drones |-> "hover"]
    /\ other_drone_position = [d \in Drones |-> None]
    /\ message_queue = [d \in Drones |-> << >>]
    /\ sensor_data_queue = [d \in Drones |-> << >>]
    /\ telemetry_data = [d \in Drones |-> << >>]
    /\ data_collection_thread = [d \in Drones |-> "none"]
    /\ comm_thread = [d \in Drones |-> "none"]
    /\ comm_error = [d \in Drones |-> FALSE]
    /\ enqueued = [d \in Drones |-> << >>]
    /\ loop_error = [d \in Drones |-> "none"]
    /\ cleanup_error = [d \in Drones |-> "none"]
    /\ last = [d \in Drones |-> None]

NoPolicyInputs ==
    /\ sensor_in = [d \in Drones |-> None]
    /\ messages_in = << >>

\* the timesteps of the evaluations: the first ones, and the first one after
\* timestep 0 at which a position update is due
PolicyTimesteps == (0..MaxPolicyTick) \cup {10}

\* the controllers as __init__ leaves them, in any state (mode, stored peer
\* position, timestep) that earlier ticks can have left, and the arguments
\* of the evaluation
PolicyInit ==
    /\ pc = [d \in Drones |-> "constructed"]
    /\ communication_pipe = [d \in Drones |-> "None"]
    /\ running = [d \in Drones |-> FALSE]
    /\ \E t \in PolicyTimesteps : timestep = [d \in Drones |-> t]
    /\ mode \in [Drones -> Modes]
    /\ other_drone_position \in [Drones -> PolicyPeers]
    /\ message_queue = [d \in Drones |-> << >>]
    /\ sensor_data_queue = [d \in Drones |-> << >>]
    /\ telemetry_data = [d \in Drones |-> << >>]
    /\ data_collection_thread = [d \in Drones |-> "none"]
    /\ comm_thread = [d \in Drones |-> "none"]
    /\ comm_error = [d \in Drones |-> FALSE]
    /\ enqueued = [d \in Drones |-> << >>]
    /\ loop_error = [d \in Drones |-> "none"]
    /\ cleanup_error = [d \in Drones |-> "none"]
    /\ last = [d \in Drones |-> None]
    /\ \E own \in PolicyOwn, l \in PolicyLidars :
          sensor_in = [d \in Drones |-> Frame(timestep[d], own[d], l)]
    /\ messages_in \in PolicyMessages
    /\ InitPipes
    /\ bridge = BridgeProcess(FALSE, TRUE)
    /\ NoSupervisor

\* one call compute_control(sensor_in[d], messages_in) on controller d
PolicyEval(d) ==
    /\ last[d] = None
    /\ LET res == ComputeControl(d, timestep[d], mode[d], other_drone_position[d],
                                 target_altitude, safe_distance,
                                 sensor_in[d], messages_in)
       IN  /\ mode' = [mode EXCEPT ![d] = res.mode]
           /\ other_drone_position' = [other_drone_position EXCEPT ![d] = res.peer]
           /\ last' = [last EXCEPT ![d] =
                         CallRecord(timestep[d], mode[d], other_drone_position[d],
                                    sensor_in[d], messages_in, res)]
    /\ UNCHANGED <<main, cleanup_error, loop_error, pc, communication_pipe, running, timestep, message_queue,
                   sensor_data_queue, telemetry_data, threadVars, enqueued,
                   inputVars, bridgeVars>>

PolicyNext == \E d \in Drones : PolicyEval(d)

SpecPolicy == PolicyInit /\ [][PolicyNext]_vars

----------------------------------------------------------------------------
\* Wire format: json.dumps / json.loads

\* json.dumps(msg_packet): the text of a packet
JsonDumps(packet) == [text |-> "json", value |-> packet]

\* a message that is no JSON text
Garbage == [text |-> "garbage"]

\* json.loads(message): the packet of a JSON text, an exception otherwise
JsonLoads(message) ==
    IF message.text = "json" THEN [ok |-> TRUE, value |-> message.value]
    ELSE [ok |-> FALSE]

----------------------------------------------------------------------------
\* CommunicationBridge._bridge_loop

NextPos(pos) == IF pos = Len(drone_names) THEN 1 ELSE pos + 1

Routing_Unchecked(recipient) ==
    IF recipient \in Drones THEN [raised |-> FALSE, to |-> <<recipient>>]
    ELSE [raised |-> TRUE, to |-> << >>]

Routing_Broadcast(recipient) ==
    [raised |-> FALSE, to |-> IF recipient \in Drones THEN drone_names ELSE << >>]

\* lines 60-62: the endpoints the message is written to
Routing(recipient) ==
    [raised |-> FALSE, to |-> IF recipient \in Drones THEN <<recipient>> ELSE << >>]

\* lines 52-62 for one received message: whether an exception is raised,
\* what is appended to message_log, and the endpoints it is forwarded to.
\* The log line reads sender, recipient and payload.get; the routing reads
\* recipient.
BridgeHandle(message, log) ==
    LET l == JsonLoads(message)
        failed == [raised |-> TRUE, logged |-> << >>, to |-> << >>]
    IN  IF ~l.ok THEN failed
        ELSE IF log /\ ~({"sender", "recipient", "payload"} \subseteq DOMAIN l.value)
        THEN failed
        ELSE IF "recipient" \notin DOMAIN l.value THEN failed
        ELSE LET r == Routing(l.value.recipient)
             IN  IF r.raised THEN [failed EXCEPT !.logged = IF log THEN <<l.value>> ELSE << >>]
                 ELSE [raised |-> FALSE,
                       logged |-> IF log THEN <<l.value>> ELSE << >>,
                       to |-> r.to]

\* a send that put the message ahead of those already in the pipe
SendAll_Front(buffers, to, message) ==
    IF to = << >> THEN buffers
    ELSE [buffers EXCEPT ![Head(to)] = <<message>> \o @]

RECURSIVE SendAll(_, _, _)
\* pipes[recipient]["parent"].send(message) for each endpoint of `to`
SendAll(buffers, to, message) ==
    IF to = << >> THEN buffers
    ELSE SendAll([buffers EXCEPT ![Head(to)] = Append(@, message)], Tail(to), message)

RECURSIVE ForwardEntries(_, _)
ForwardEntries(to, message) ==
    IF to = << >> THEN << >>
    ELSE <<[message |-> message, to |-> Head(to)]>> \o ForwardEntries(Tail(to), message)

\* "Bridge error" lines are counted up to MaxErrors
MaxErrors == 2

\* Connection.send(message) to each endpoint of `to` returns at once
HasRoom(to) == \A i \in DOMAIN to : SendReturns(toDrone[to[i]], 1)

\* one poll of the endpoint the for loop is at: nothing pending (the poll
\* times out), or one message received, logged and routed; an exception
\* leaves the for loop and the next pass starts at the first endpoint.
\* send is a blocking call: when the recipient's pipe has no room the
\* message, already received and logged, is held by the call (bridge.held)
\* and the bridge does nothing else until the call returns.
BridgeStep ==
    /\ bridge.alive
    /\ IF bridge.held # None
       THEN /\ HasRoom(bridge.held.to)
            /\ toDrone' = SendAll(toDrone, bridge.held.to, bridge.held.message)
            /\ bridge' = [bridge EXCEPT
                  !.pos = NextPos(bridge.pos),
                  !.held = None,
                  !.forward_log = @ \o ForwardEntries(bridge.held.to, bridge.held.message)]
            /\ UNCHANGED toBridge
       ELSE LET s == drone_names[bridge.pos]
            IN  IF toBridge[s] = << >>
                THEN /\ bridge' = [bridge EXCEPT !.pos = NextPos(bridge.pos)]
                     /\ UNCHANGED <<toBridge, toDrone>>
                ELSE LET message == Head(toBridge[s])
                         h == BridgeHandle(message, bridge.log_messages)
                     IN  /\ toBridge' = [toBridge EXCEPT ![s] = Tail(@)]
                         /\ IF HasRoom(h.to)
                            THEN /\ toDrone' = SendAll(toDrone, h.to, message)
                                 /\ bridge' = [bridge EXCEPT
                                       !.pos = IF h.raised THEN 1 ELSE NextPos(bridge.pos),
                                       !.errors = IF h.raised /\ @ < MaxErrors THEN @ + 1 ELSE @,
                                       !.message_log = @ \o h.logged,
                                       !.forward_log = @ \o ForwardEntries(h.to, message)]
                            ELSE /\ toDrone' = toDrone
                                 /\ bridge' = [bridge EXCEPT
                                       !.message_log = @ \o h.logged,
                                       !.held = [message |-> message, to |-> h.to]]
    /\ UNCHANGED <<main, cleanup_error, loop_error, pc, communication_pipe, running, timestep, message_queue,
                   sensor_data_queue, telemetry_data, threadVars, enqueued,
                   policyVars, inputVars, clock>>

\* stop_bridge: bridge_process.terminate() and join(). terminate() signals
\* the process wherever it is, also inside a send that has not returned.
StopBridge ==
    /\ bridge.alive
    /\ bridge' = [bridge EXCEPT !.alive = FALSE]
    /\ UNCHANGED <<main, cleanup_error, loop_error, pc, communication_pipe, running, timestep, message_queue,
                   sensor_data_queue, telemetry_data, threadVars, enqueued,
                   policyVars, inputVars, clock, toBridge, toDrone>>

----------------------------------------------------------------------------
\* The bridge with arbitrary clients on its endpoints (SpecBridge)

\* envelopes a client creates: at most MaxSend
MaxSend == 3

\* recipients a client may name; "Drone9" is not registered
ClientRecipients == Drones \cup {"Drone9"}

\* what a client writes to its endpoint: a well-formed packet, a packet for
\* its peer whose payload has no type or that has no payload, or garbage
ClientMessages(d) ==
    {JsonDumps(Envelope(clock, d, r, [type |-> "status"])) : r \in ClientRecipients}
        \cup {JsonDumps(Envelope(clock, d, PeerName(d), [battery |-> 0])),
              JsonDumps([timestamp |-> clock, sender |-> d, recipient |-> PeerName(d)]),
              Garbage}

\* get_drone_pipe(d).send(w) by the holder of d's endpoint, once the pipe
\* has room
ClientSend(d) ==
    /\ clock < MaxSend
    /\ SendReturns(toBridge[d], 1)
    /\ \E w \in ClientMessages(d) : toBridge' = [toBridge EXCEPT ![d] = Append(@, w)]
    /\ clock' = clock + 1
    /\ UNCHANGED <<main, cleanup_error, loop_error, pc, communication_pipe, running, timestep, message_queue,
                   sensor_data_queue, telemetry_data, threadVars, enqueued,
                   policyVars, inputVars, toDrone, bridge>>

\* get_drone_pipe(d).recv() by the holder of d's endpoint
ClientRecv(d) ==
    /\ toDrone[d] # << >>
    /\ toDrone' = [toDrone EXCEPT ![d] = Tail(@)]
    /\ UNCHANGED <<main, cleanup_error, loop_error, pc, communication_pipe, running, timestep, message_queue,
                   sensor_data_queue, telemetry_data, threadVars, enqueued,
                   policyVars, inputVars, clock, toBridge, bridge>>

\* CommunicationBridge(drone_names, log_messages) after start_bridge()
\* on pipes of one of the capacities `caps`
BridgeInitWith(caps) ==
    /\ pc = [d \in Drones |-> "absent"]
    /\ communication_pipe = [d \in Drones |-> "None"]
    /\ InitController
    /\ NoPolicyInputs
    /\ InitPipes
    /\ \E log \in BOOLEAN, cap \in caps :
          bridge = [BridgeProcess(TRUE, log) EXCEPT !.capacity = cap]
    /\ NoSupervisor

BridgeInit == BridgeInitWith({PipeCapacity})

BridgeNext ==
    \/ BridgeStep
    \/ StopBridge
    \/ \E d \in Drones : ClientSend(d)
    \/ \E d \in Drones : ClientRecv(d)

\* arbitrary clients, on pipes that hold one message more, so that two
\* envelopes of one sender can wait in a pipe together
SpecBridge == BridgeInitWith({PipeCapacity + 1}) /\ [][BridgeNext]_vars

----------------------------------------------------------------------------
\* The bridge with an endpoint that keeps sending malformed texts (SpecFlood)

\* texts the bridge cannot handle: not JSON, or JSON without recipient
Malformed(d) ==
    { Garbage,
      JsonDumps([timestamp |-> 0, sender |-> d, payload |-> [type |-> "status"]]) }

\* the holder of d's endpoint sends one more malformed text as soon as the
\* pipe has room for it
Flood(d) ==
    /\ SendReturns(toBridge[d], 1)
    /\ \E w \in Malformed(d) : toBridge' = [toBridge EXCEPT ![d] = Append(@, w)]
    /\ UNCHANGED <<main, cleanup_error, loop_error, pc, communication_pipe, running, timestep, message_queue,
                   sensor_data_queue, telemetry_data, threadVars, enqueued,
                   policyVars, inputVars, clock, toDrone, bridge>>

FloodNext ==
    \/ BridgeStep
    \/ \E d \in Drones : ClientSend(d)
    \/ \E d \in Drones : ClientRecv(d)
    \/ \E d \in Drones : Flood(d)

\* the bridge process runs and every agent reads what it is sent
SpecFlood ==
    /\ BridgeInit
    /\ [][FloodNext]_vars
    /\ WF_vars(BridgeStep)
    /\ \A d \in Drones : WF_vars(ClientRecv(d))

----------------------------------------------------------------------------
\* The bridge with an agent that never reads its endpoint (SpecBackedUp)

\* the agent that does not read
BackedUp == "Drone2"

BackedUpNext ==
    \/ BridgeStep
    \/ \E d \in Drones : ClientSend(d)
    \/ \E d \in Drones \ {BackedUp} : ClientRecv(d)

\* the bridge process runs and every other agent reads what it is sent
SpecBackedUp ==
    /\ BridgeInit
    /\ [][BackedUpNext]_vars
    /\ WF_vars(BridgeStep)
    /\ \A d \in Drones \ {BackedUp} : WF_vars(ClientRecv(d))

----------------------------------------------------------------------------
\* BaseDroneController: control_loop and its two threads

\* ticks of the single control loop: timestep < MaxTick
MaxTick == 2

\* ticks of each control loop of the launched system: timestep < MaxSysTick
MaxSysTick == 1

\* where the simulator reports each vehicle
SysPosition == [Drone1 |-> PosA, Drone2 |-> PosB]

\* the point clouds the simulator reports: none in the launched system;
\* none, an obstacle 2 m ahead or one 9 m ahead for the single control loop
SysLidars == {None}

LoopLidars == {None, Lidar(<< <<2, 0, 0>> >>), Lidar(<< <<9, 0, 0>> >>)}

\* the attributes the control loop's threads use on self.communication_pipe:
\* a multiprocessing Connection has them all, a MockLoRaTransceiver
\* defines send, receive, get_rssi and get_snr
EndpointMethods(kind) ==
    IF kind = "Connection" THEN {"send", "recv", "poll"}
    ELSE IF kind = "MockLoRaTransceiver" THEN {"send", "receive", "get_rssi", "get_snr"}
    ELSE { }

NextTimestep_Stuck(ts) == ts

\* self.timestep += 1
NextTimestep(ts) == ts + 1

RECURSIVE Packets(_, _, _)
\* send_message for each (recipient, message) of `sent`: the packets, stamped
\* with the time of the call, as JSON texts
Packets(d, sent, now) ==
    IF sent = << >> THEN << >>
    ELSE <<JsonDumps(Envelope(now, d, Head(sent).recipient, Head(sent).message))>>
            \o Packets(d, Tail(sent), now + 1)

\* run_drone_controller up to control_loop's while loop: the controller is
\* constructed around the endpoint object `kind`, running is set and the two
\* threads are started
Start(d, kind) ==
    /\ pc[d] = "new"
    /\ pc' = [pc EXCEPT ![d] = "loop"]
    /\ communication_pipe' = [communication_pipe EXCEPT ![d] = kind]
    /\ running' = [running EXCEPT ![d] = TRUE]
    /\ data_collection_thread' = [data_collection_thread EXCEPT ![d] = "alive"]
    /\ comm_thread' = [comm_thread EXCEPT ![d] = "alive"]
    /\ UNCHANGED <<main, cleanup_error, loop_error, timestep, message_queue, sensor_data_queue, telemetry_data,
                   comm_error, enqueued, policyVars, inputVars, bridgeVars>>

\* the calls of collect_sensor_data that reach the simulator
SensorReads == {"rgb", "ir", "lidar", "telemetry"}

\* what can fail in one iteration: the read of one sensor, or the issue of
\* the command to the vehicle
TickFaults == {"none", "actuation"} \cup SensorReads

\* one iteration of the while loop of control_loop: collect_sensor_data,
\* sensor_data_queue.put, receive_messages, compute_control (with its
\* send_message calls), execute_control, timestep += 1.  The try statement
\* encloses the whole loop and handles KeyboardInterrupt only: an exception
\* of a sensor read, of compute_control or of execute_control leaves the
\* loop at the call that raised it, for the finally clause, where cleanup
\* sets running to False.  send_message blocks while the pipe is full: the
\* iteration is taken when it returns.  `clouds` are the point clouds the simulator may
\* report, `ticks` bounds the number of iterations.
Tick(d, clouds, ticks) ==
    /\ pc[d] = "loop"
    /\ running[d]
    /\ timestep[d] < ticks
    /\ \E lidar \in clouds, fault \in TickFaults :
          LET sensor_data == Frame(timestep[d], SysPosition[d], lidar)
              messages == message_queue[d]
              res == ComputeControl(d, timestep[d], mode[d], other_drone_position[d],
                                    target_altitude, safe_distance, sensor_data, messages)
              out == IF "send" \in EndpointMethods(communication_pipe[d])
                     THEN Packets(d, res.sent, clock) ELSE << >>
          IN  IF fault \in SensorReads
              THEN /\ pc' = [pc EXCEPT ![d] = "cleanup"]
                   /\ running' = [running EXCEPT ![d] = FALSE]
                   /\ loop_error' = [loop_error EXCEPT ![d] = fault]
                   /\ UNCHANGED <<sensor_data_queue, enqueued, message_queue,
                                  policyVars, toBridge, clock, timestep>>
              ELSE /\ SendReturns(toBridge[d], Len(out))
                   /\ sensor_data_queue' = [sensor_data_queue EXCEPT ![d] = Append(@, sensor_data)]
                   /\ enqueued' = [enqueued EXCEPT ![d] = Append(@, sensor_data.timestep)]
                   /\ message_queue' = [message_queue EXCEPT ![d] = << >>]
                   /\ mode' = [mode EXCEPT ![d] = res.mode]
                   /\ other_drone_position' = [other_drone_position EXCEPT ![d] = res.peer]
                   /\ last' = [last EXCEPT ![d] =
                                 CallRecord(timestep[d], mode[d], other_drone_position[d],
                                            sensor_data, messages, res)]
                   /\ toBridge' = [toBridge EXCEPT ![d] = @ \o out]
                   /\ clock' = clock + Len(out)
                   /\ IF res.raised \/ fault = "actuation"
                      THEN /\ pc' = [pc EXCEPT ![d] = "cleanup"]
                           /\ running' = [running EXCEPT ![d] = FALSE]
                           /\ loop_error' = [loop_error EXCEPT ![d] =
                                  IF res.raised THEN "compute_control" ELSE "execute_control"]
                           /\ UNCHANGED timestep
                      ELSE /\ timestep' = [timestep EXCEPT ![d] = NextTimestep(@)]
                           /\ UNCHANGED <<pc, running, loop_error>>
    /\ UNCHANGED <<main, cleanup_error, communication_pipe, telemetry_data, threadVars,
                   inputVars, toDrone, bridge>>

\* KeyboardInterrupt in the while loop: the finally clause runs cleanup,
\* which sets running to False
Interrupt(d) ==
    /\ pc[d] = "loop"
    /\ pc' = [pc EXCEPT ![d] = "cleanup"]
    /\ running' = [running EXCEPT ![d] = FALSE]
    /\ UNCHANGED <<main, cleanup_error, loop_error, communication_pipe, timestep, message_queue, sensor_data_queue,
                   telemetry_data, threadVars, enqueued, policyVars, inputVars,
                   bridgeVars>>

\* one iteration of data_collection_loop that gets a frame.
\* save_sensor_data writes the point cloud of a frame that has one and then
\* appends the telemetry; an exception of the write is not queue.Empty, so
\* it ends the thread before the append, and a write that does not return
\* (a storage device that stopped answering) leaves the thread in it.
DataStep(d) ==
    /\ data_collection_thread[d] = "alive"
    /\ running[d]
    /\ sensor_data_queue[d] # << >>
    /\ sensor_data_queue' = [sensor_data_queue EXCEPT ![d] = Tail(@)]
    /\ \E write \in {"ok", "raises", "hangs"} :
          IF write # "ok"
          THEN /\ Head(sensor_data_queue[d]).lidar # None
               /\ data_collection_thread' = [data_collection_thread EXCEPT ![d] =
                      IF write = "raises" THEN "dead" ELSE "stuck"]
               /\ UNCHANGED telemetry_data
          ELSE /\ telemetry_data' = [telemetry_data EXCEPT ![d] =
                                       Append(@, Head(sensor_data_queue[d]).telemetry)]
               /\ UNCHANGED data_collection_thread
    /\ UNCHANGED <<main, cleanup_error, loop_error, pc, communication_pipe, running, timestep, message_queue,
                   comm_thread, comm_error, enqueued, policyVars, inputVars, bridgeVars>>

\* data_collection_loop finds running False and returns
DataExit(d) ==
    /\ data_collection_thread[d] = "alive"
    /\ ~running[d]
    /\ data_collection_thread' = [data_collection_thread EXCEPT ![d] = "done"]
    /\ UNCHANGED <<main, cleanup_error, loop_error, pc, communication_pipe, running, timestep, message_queue,
                   sensor_data_queue, telemetry_data, comm_thread, comm_error,
                   enqueued, policyVars, inputVars, bridgeVars>>

Accepts_Any(d, msg_packet) == TRUE

\* line 332: msg_packet["recipient"] == self.drone_name
Accepts(d, msg_packet) == msg_packet.recipient = d

\* communication_loop if it applied a position update itself on receipt
CommStep_Applies(d) ==
    /\ comm_thread[d] = "alive"
    /\ running[d]
    /\ ~comm_error[d]
    /\ toDrone[d] # << >>
    /\ toDrone' = [toDrone EXCEPT ![d] = Tail(@)]
    /\ LET l == JsonLoads(Head(toDrone[d]))
       IN  other_drone_position' = [other_drone_position EXCEPT ![d] =
              IF l.ok /\ "payload" \in DOMAIN l.value /\ IsPositionUpdate(l.value)
                 /\ "position" \in DOMAIN l.value.payload
              THEN l.value.payload.position ELSE @]
    /\ UNCHANGED <<main, cleanup_error, loop_error, pc, communication_pipe, running,
                   timestep, sensor_data_queue, telemetry_data, threadVars,
                   message_queue, enqueued, mode, last, inputVars, clock, toBridge,
                   bridge>>

\* the try block of one iteration of communication_loop.  poll and recv are
\* looked up on self.communication_pipe: on an object without them the
\* lookup raises AttributeError, which takes the thread to the except
\* clause, as does a text json.loads rejects.  Otherwise a pending message
\* is received and decoded, and queued if it names this drone.
CommStep(d) ==
    /\ comm_thread[d] = "alive"
    /\ running[d]
    /\ ~comm_error[d]
    /\ IF ~({"poll", "recv"} \subseteq EndpointMethods(communication_pipe[d]))
       THEN /\ comm_error' = [comm_error EXCEPT ![d] = TRUE]
            /\ UNCHANGED <<toDrone, message_queue>>
       ELSE /\ toDrone[d] # << >>
            /\ toDrone' = [toDrone EXCEPT ![d] = Tail(@)]
            /\ LET l == JsonLoads(Head(toDrone[d]))
               IN  IF ~l.ok \/ "recipient" \notin DOMAIN l.value
                   THEN /\ comm_error' = [comm_error EXCEPT ![d] = TRUE]
                        /\ UNCHANGED message_queue
                   ELSE /\ message_queue' = [message_queue EXCEPT ![d] =
                              IF Accepts(d, l.value) THEN Append(@, l.value) ELSE @]
                        /\ UNCHANGED comm_error
    /\ UNCHANGED <<main, cleanup_error, loop_error, pc, communication_pipe, running, timestep, sensor_data_queue,
                   telemetry_data, data_collection_thread, comm_thread, enqueued,
                   policyVars, inputVars, clock, toBridge, bridge>>

\* communication_loop if an exception ended it
CommError_Ends(d) ==
    /\ comm_thread[d] = "alive"
    /\ comm_error[d]
    /\ comm_error' = [comm_error EXCEPT ![d] = FALSE]
    /\ comm_thread' = [comm_thread EXCEPT ![d] = "dead"]
    /\ UNCHANGED <<main, cleanup_error, loop_error, pc, communication_pipe, running,
                   timestep, message_queue, sensor_data_queue, telemetry_data,
                   data_collection_thread, enqueued, policyVars, inputVars,
                   bridgeVars>>

\* the except clause of communication_loop: the error is printed and the
\* loop goes on with its next iteration
CommError(d) ==
    /\ comm_thread[d] = "alive"
    /\ comm_error[d]
    /\ comm_error' = [comm_error EXCEPT ![d] = FALSE]
    /\ UNCHANGED <<main, cleanup_error, loop_error, pc, communication_pipe, running, timestep, message_queue,
                   sensor_data_queue, telemetry_data, data_collection_thread,
                   comm_thread, enqueued, policyVars, inputVars, bridgeVars>>

\* communication_loop finds running False and returns
CommExit(d) ==
    /\ comm_thread[d] = "alive"
    /\ ~running[d]
    /\ ~comm_error[d]
    /\ comm_thread' = [comm_thread EXCEPT ![d] = "done"]
    /\ UNCHANGED <<main, cleanup_error, loop_error, pc, communication_pipe, running, timestep, message_queue,
                   sensor_data_queue, telemetry_data, data_collection_thread,
                   comm_error, enqueued, policyVars, inputVars, bridgeVars>>

Joined_Timeout(thread) == TRUE

\* thread.join() has returned: the thread has returned or was ended by an
\* exception
Joined(thread) == thread \in {"done", "dead"}

\* what can go wrong in cleanup once the threads are joined: writing the
\* telemetry table raises, landAsync(...).join() raises, or it never returns
CleanupFaults == {"none", "flush", "land", "land_hangs"}

\* cleanup after running = False: both join() calls have returned (they
\* have no timeout), then the telemetry table is written if there are rows,
\* then the vehicle is landed, disarmed and released.  None of the calls is
\* in a try statement: an exception leaves cleanup, the finally clause and
\* control_loop ("raised"), and a land that does not complete keeps the
\* process in cleanup ("hung").
CleanupDone(d) ==
    /\ pc[d] = "cleanup"
    /\ Joined(data_collection_thread[d])
    /\ Joined(comm_thread[d])
    /\ \E fault \in CleanupFaults :
          /\ fault = "flush" => telemetry_data[d] # << >>
          /\ cleanup_error' = [cleanup_error EXCEPT ![d] = fault]
          /\ pc' = [pc EXCEPT ![d] =
                 IF fault = "none" THEN "stopped"
                 ELSE IF fault = "land_hangs" THEN "hung" ELSE "raised"]
    /\ UNCHANGED <<main, loop_error, communication_pipe, running, timestep, message_queue,
                   sensor_data_queue, telemetry_data, threadVars, enqueued,
                   policyVars, inputVars, bridgeVars>>

----------------------------------------------------------------------------
\* The system main() launches: the bridge, and one controller per drone
\* around a MockLoRaTransceiver

\* the positions of an agent's process in which Process.is_alive() holds
AliveStates == {"new", "loop", "cleanup", "hung"}

IsAlive(d) == pc[d] \in AliveStates

\* run_drone_controller when the constructor raises (the simulator refuses
\* the connection or API control): the exception is printed and re-raised,
\* and the process ends
StartFails(d) ==
    /\ pc[d] = "new"
    /\ pc' = [pc EXCEPT ![d] = "failed"]
    /\ UNCHANGED <<main, cleanup_error, loop_error, communication_pipe, running, timestep,
                   message_queue, sensor_data_queue, telemetry_data, threadVars,
                   enqueued, policyVars, inputVars, bridgeVars>>

WaitOver_Any(alive) == \E d \in Drones : ~alive[d]

\* lines 81-82, for process in processes: process.join(), has returned for
\* every process
WaitOver(alive) == \A d \in Drones : ~alive[d]

\* main leaves the wait loop because every agent process has ended
MainJoined ==
    /\ main.pc = "wait"
    /\ WaitOver([d \in Drones |-> IsAlive(d)])
    /\ main' = [main EXCEPT !.pc = "finally"]
    /\ UNCHANGED <<pc, cleanup_error, loop_error, communication_pipe, running, timestep,
                   message_queue, sensor_data_queue, telemetry_data, threadVars,
                   enqueued, policyVars, inputVars, bridgeVars>>

\* SIGINT reaches main in the wait loop: signal_handler calls sys.exit(0),
\* and the SystemExit leaves the try statement through its finally clause
StopSignal ==
    /\ main.pc = "wait"
    /\ main' = [pc |-> "finally", signal |-> TRUE]
    /\ UNCHANGED <<pc, cleanup_error, loop_error, communication_pipe, running, timestep,
                   message_queue, sensor_data_queue, telemetry_data, threadVars,
                   enqueued, policyVars, inputVars, bridgeVars>>

\* first statement of the finally clause: comm_bridge.stop_bridge()
MainStopBridge ==
    /\ main.pc = "finally"
    /\ main' = [main EXCEPT !.pc = "agents"]
    /\ bridge' = [bridge EXCEPT !.alive = FALSE]
    /\ UNCHANGED <<pc, cleanup_error, loop_error, communication_pipe, running, timestep,
                   message_queue, sensor_data_queue, telemetry_data, threadVars,
                   enqueued, policyVars, inputVars, clock, toBridge, toDrone>>

AfterTerminate_Skip(p) == p

\* if process.is_alive(): process.terminate(); process.join()
AfterTerminate(p) == IF p \in AliveStates THEN "terminated" ELSE p

\* a thread of a process that is terminated
KilledWith(p, thread) ==
    IF AfterTerminate(p) = "terminated" /\ thread \in {"alive", "stuck"} THEN "killed"
    ELSE thread

\* rest of the finally clause: every agent process that is still alive is
\* terminated, wherever it is, and joined; main returns
MainTerminate ==
    /\ main.pc = "agents"
    /\ main' = [main EXCEPT !.pc = "returned"]
    /\ pc' = [d \in Drones |-> AfterTerminate(pc[d])]
    /\ data_collection_thread' =
          [d \in Drones |-> KilledWith(pc[d], data_collection_thread[d])]
    /\ comm_thread' = [d \in Drones |-> KilledWith(pc[d], comm_thread[d])]
    /\ UNCHANGED <<cleanup_error, loop_error, communication_pipe, running, timestep,
                   message_queue, sensor_data_queue, telemetry_data, comm_error,
                   enqueued, policyVars, inputVars, bridgeVars>>

\* main() in its wait loop: the bridge process started, one process started
\* per drone
Init ==
    /\ pc = [d \in Drones |-> "new"]
    /\ communication_pipe = [d \in Drones |-> "None"]
    /\ InitController
    /\ NoPolicyInputs
    /\ InitPipes
    /\ bridge = BridgeProcess(TRUE, TRUE)
    /\ main = MainProcess("wait")

Next ==
    \/ BridgeStep
    \/ MainJoined
    \/ StopSignal
    \/ MainStopBridge
    \/ MainTerminate
    \/ \E d \in Drones : Start(d, "MockLoRaTransceiver")
    \/ \E d \in Drones : StartFails(d)
    \/ \E d \in Drones : Tick(d, SysLidars, MaxSysTick)
    \/ \E d \in Drones : Interrupt(d)
    \/ \E d \in Drones : DataStep(d)
    \/ \E d \in Drones : DataExit(d)
    \/ \E d \in Drones : CommStep(d)
    \/ \E d \in Drones : CommError(d)
    \/ \E d \in Drones : CommExit(d)
    \/ \E d \in Drones : CleanupDone(d)

Spec == Init /\ [][Next]_vars

\* every process and thread that can run does run
FairSpec ==
    /\ Spec
    /\ WF_vars(BridgeStep)
    /\ WF_vars(MainStopBridge)
    /\ WF_vars(MainTerminate)
    /\ \A d \in Drones :
          /\ WF_vars(Start(d, "MockLoRaTransceiver"))
          /\ WF_vars(Tick(d, SysLidars, MaxSysTick))
          /\ WF_vars(DataStep(d))
          /\ WF_vars(CommStep(d))
          /\ WF_vars(CommError(d))
          /\ WF_vars(CommExit(d))
          /\ WF_vars(DataExit(d))
          /\ WF_vars(CleanupDone(d))

----------------------------------------------------------------------------
\* One control loop on a raw pipe end whose other end is written by its
\* environment (SpecLoop)

\* messages the environment writes to the controller's pipe: at most MaxDeliver
MaxDeliver == 2

LoopDrones == {"Drone1"}

DeliverMessages(d) ==
    { JsonDumps(Envelope(clock, PeerName(d), d, PositionUpdate(PosB, "hover"))),
      JsonDumps(Envelope(clock, PeerName(d), d, [type |-> "position_update"])),
      JsonDumps(Envelope(clock, PeerName(d), PeerName(d), [type |-> "status"])),
      Garbage }

\* the other end of the pipe sends a message to the controller
Deliver(d) ==
    /\ clock < MaxDeliver
    /\ SendReturns(toDrone[d], 1)
    /\ \E w \in DeliverMessages(d) : toDrone' = [toDrone EXCEPT ![d] = Append(@, w)]
    /\ clock' = clock + 1
    /\ UNCHANGED <<main, cleanup_error, loop_error, pc, communication_pipe, running, timestep, message_queue,
                   sensor_data_queue, telemetry_data, threadVars, enqueued,
                   policyVars, inputVars, toBridge, bridge>>

LoopInit ==
    /\ pc = [d \in Drones |-> IF d \in LoopDrones THEN "new" ELSE "absent"]
    /\ communication_pipe = [d \in Drones |-> "None"]
    /\ InitController
    /\ NoPolicyInputs
    /\ InitPipes
    /\ bridge = BridgeProcess(FALSE, TRUE)
    /\ NoSupervisor

LoopNext ==
    \/ \E d \in LoopDrones : Start(d, "Connection")
    \/ \E d \in LoopDrones : Deliver(d)
    \/ \E d \in LoopDrones : Tick(d, LoopLidars, MaxTick)
    \/ \E d \in LoopDrones : Interrupt(d)
    \/ \E d \in LoopDrones : DataStep(d)
    \/ \E d \in LoopDrones : DataExit(d)
    \/ \E d \in LoopDrones : CommStep(d)
    \/ \E d \in LoopDrones : CommError(d)
    \/ \E d \in LoopDrones : CommExit(d)
    \/ \E d \in LoopDrones : CleanupDone(d)

SpecLoop == LoopInit /\ [][LoopNext]_vars

\* the threads return when they can, and cleanup goes on when it can
FairLoop ==
    /\ SpecLoop
    /\ \A d \in LoopDrones :
          /\ WF_vars(DataExit(d))
          /\ WF_vars(CommError(d))
          /\ WF_vars(CommExit(d))
          /\ WF_vars(CleanupDone(d))

----------------------------------------------------------------------------
\* One control loop on a MockLoRaTransceiver whose pipe nobody drains: the
\* bridge process has been stopped (SpecSend)

\* ticks of that control loop: timestep < MaxSendTick
MaxSendTick == 11

SendNext ==
    \/ \E d \in LoopDrones : Start(d, "MockLoRaTransceiver")
    \/ \E d \in LoopDrones : Tick(d, SysLidars, MaxSendTick)
    \/ \E d \in LoopDrones : Interrupt(d)
    \/ \E d \in LoopDrones : DataStep(d)
    \/ \E d \in LoopDrones : DataExit(d)
    \/ \E d \in LoopDrones : CommStep(d)
    \/ \E d \in LoopDrones : CommError(d)
    \/ \E d \in LoopDrones : CommExit(d)
    \/ \E d \in LoopDrones : CleanupDone(d)

SpecSend == LoopInit /\ [][SendNext]_vars

----------------------------------------------------------------------------
\* Properties of compute_control (checked under SpecPolicy)

Evaluated(d) == last[d] # None

Returned(d) == Evaluated(d) /\ ~last[d].raised

Vel(d) == last[d].command.velocity

OwnPos(d) == last[d].frame.telemetry.position

\* offset from the agent to the peer position it holds after the messages
\* of the call were processed
HoldsPeer(d) == last[d].peer # None

Dx(d) == last[d].peer.x - OwnPos(d).x

Dy(d) == last[d].peer.y - OwnPos(d).y

Dz(d) == last[d].peer.z - OwnPos(d).z

Dist2(d) == Dx(d) * Dx(d) + Dy(d) * Dy(d) + Dz(d) * Dz(d)

\* the peer is closer than 1.5 x safe_distance
PeerNear(d) == HoldsPeer(d) /\ 4 * Dist2(d) < 9 * safe_distance * safe_distance

\* some point with positive x lies closer than safe_distance
NearObstacle(d) ==
    LET l == last[d].frame.lidar
    IN  /\ l # None
        /\ \E i \in 1..Len(l.points) :
              /\ l.points[i][1] > 0
              /\ Norm2(l.points[i]) < safe_distance * safe_distance

\* a nearest point of the forward hemisphere
NearestFront(d) ==
    LET pts == last[d].frame.lidar.points
        I   == {i \in 1..Len(pts) : pts[i][1] > 0}
    IN  pts[CHOOSE i \in I : \A j \in I : Norm2(pts[i]) <= Norm2(pts[j])]

InRange(v, lo, hi) == v # NaN /\ lo <= v /\ v <= hi

\* v is a number whose sign is opposite to the sign of c (c # 0)
Opposes(v, c) == v # NaN /\ ((c > 0 /\ v < 0) \/ (c < 0 /\ v > 0))

\* v is the component 2.0 * (-c / sqrt(d2)) in milli, to the last digit;
\* not a number at distance 0
AwayComponent(v, c, d2) ==
    IF d2 = 0 THEN v = NaN
    ELSE /\ v # NaN
         /\ (c > 0 => v < 0) /\ (c < 0 => v > 0) /\ (c = 0 => v = 0)
         /\ c # 0 => /\ (v * v - 2 * (IF v < 0 THEN -v ELSE v) + 1) * d2
                          <= 4000000 * c * c
                     /\ 4000000 * c * c
                          <= (v * v + 2 * (IF v < 0 THEN -v ELSE v) + 1) * d2

\* C5 (as claimed): every velocity command returned by compute_control has
\* x and y within [-3,3] and z within [-2,2].
C5_VelocityInEnvelope ==
    \A d \in Drones :
        Returned(d) => /\ InRange(Vel(d).x, -3000, 3000)
                       /\ InRange(Vel(d).y, -3000, 3000)
                       /\ InRange(Vel(d).z, -2000, 2000)

SameFullInputs ==
    /\ Evaluated("Drone1") /\ Evaluated("Drone2")
    /\ last["Drone1"].frame = last["Drone2"].frame
    /\ last["Drone1"].messages = last["Drone2"].messages
    /\ last["Drone1"].mode0 = last["Drone2"].mode0
    /\ last["Drone1"].peer0 = last["Drone2"].peer0
    /\ last["Drone1"].timestep = last["Drone2"].timestep

C7_NearObstacleSelectsAvoid ==
    \A d \in Drones :
        (Returned(d) /\ NearObstacle(d)) => (last[d].mode = "avoid" /\ mode[d] = "avoid")

C7_Witness ==
    \E d \in Drones :
        /\ Returned(d) /\ NearObstacle(d)
        /\ last[d].mode0 = "explore"
        /\ ~PeerNear(d)
        /\ Len(last[d].frame.lidar.points) = 2

FacingPair ==
    /\ Returned("Drone1") /\ Returned("Drone2")
    /\ HoldsPeer("Drone1") /\ HoldsPeer("Drone2")
    /\ last["Drone1"].peer = OwnPos("Drone2")
    /\ last["Drone2"].peer = OwnPos("Drone1")
    /\ OwnPos("Drone1") # OwnPos("Drone2")
    /\ PeerNear("Drone1")
    /\ ~NearObstacle("Drone1") /\ ~NearObstacle("Drone2")

\* the horizontal velocity has a negative component along the vector
\* towards the peer
MovesAway(d) ==
    /\ Vel(d).x # NaN /\ Vel(d).y # NaN
    /\ Vel(d).x * Dx(d) + Vel(d).y * Dy(d) < 0

\* C9: two agents that hold each other's position at a
\* distance below 1.5 x safe_distance, no obstacle in range, both select
\* avoid and each moves away from the other.
C9_BothAvoidAndSeparate ==
    FacingPair => \A d \in Drones : last[d].mode = "avoid" /\ MovesAway(d)

\* The separation the code does achieve: two such agents whose horizontal
\* positions differ (x or y) both select avoid and move apart.  Agents
\* stacked on the vertical axis select avoid but get no horizontal velocity.
C9_BothAvoidAndSeparateHorizontally ==
    (FacingPair /\ (Dx("Drone1") # 0 \/ Dy("Drone1") # 0)) =>
        \A d \in Drones : last[d].mode = "avoid" /\ MovesAway(d)

C9_Witness ==
    /\ FacingPair
    /\ OwnPos("Drone1") = PosA /\ OwnPos("Drone2") = PosB
    /\ last["Drone1"].mode0 = "hover"

\* C10 (as claimed): when an obstacle is within safe_distance and the peer
\* within 1.5 x safe_distance in the same tick, the steering returned is the
\* obstacle rule's (x = -1, y = +1 or -1 by agent), not the peer avoidance.
C10_ObstacleSteeringWins ==
    \A d \in Drones :
        (Returned(d) /\ NearObstacle(d) /\ PeerNear(d)) =>
            /\ Vel(d).x = -1000
            /\ Vel(d).y = IF d = "Drone1" THEN 1000 ELSE -1000

\* C10 (amended): in that tick the mode is avoid and the steering returned
\* is the peer avoidance of rule 2 (gain 2 along the unit vector away from
\* the stored peer position; not a number at peer distance 0): the peer
\* block runs after the obstacle block and overwrites its velocities.
C10_PeerSteeringWins ==
    \A d \in Drones :
        (Returned(d) /\ NearObstacle(d) /\ PeerNear(d)) =>
            /\ last[d].mode = "avoid"
            /\ AwayComponent(Vel(d).x, Dx(d), Dist2(d))
            /\ AwayComponent(Vel(d).y, Dy(d), Dist2(d))

C10_Witness ==
    \E d \in Drones :
        /\ Returned(d) /\ NearObstacle(d) /\ PeerNear(d)
        /\ Dx(d) = 3
        /\ Vel(d).x = -2000 /\ Vel(d).y = 0

\* C11: when neither the obstacle rule nor the peer rule fires (no forward
\* point closer than safe_distance, the cloud null, empty or without forward
\* points included, and no peer within 1.5 x safe_distance), the mode after
\* compute_control is explore and the horizontal steering is the pattern of
\* the current timestep, whatever the prior mode.
C11_ElseExplorePattern ==
    \A d \in Drones :
        (Returned(d) /\ ~NearObstacle(d) /\ ~PeerNear(d)) =>
            /\ last[d].mode = "explore"
            /\ Vel(d).x = ExploreVx(last[d].timestep)
            /\ Vel(d).y = ExploreVy(last[d].timestep)

\* C12: the vertical velocity of every returned command is the clamped
\* proportional term on target_altitude - z (gain 0.5, limits -2 and 2) and
\* nothing else: it is the same in every mode, with or without obstacles,
\* peer position or messages.
C12_VerticalIsAltitudeTerm ==
    \A d \in Drones :
        Returned(d) =>
            LET e == target_altitude - OwnPos(d).z
            IN  Vel(d).z = IF e >= 4 THEN 2000
                           ELSE IF e <= -4 THEN -2000
                           ELSE 500 * e

\* an agent avoiding an obstacle 3 beyond the target altitude gets the
\* proportional 1.5 while the other, 8 on the other side of it and taken
\* from explore to avoid, gets the limit -2
C12_Witness ==
    /\ Returned("Drone1") /\ Returned("Drone2")
    /\ OwnPos("Drone1") = PosD /\ OwnPos("Drone2") = PosE
    /\ NearObstacle("Drone1") /\ last["Drone1"].mode = "avoid"
    /\ last["Drone1"].messages # << >>
    /\ Vel("Drone1").z = 1500
    /\ last["Drone2"].mode0 = "explore" /\ last["Drone2"].mode = "avoid"
    /\ Vel("Drone2").z = -2000

\* C30: a tick sends exactly one position_update, with the agent's current
\* position and the mode this tick has selected, to the other agent, when
\* its timestep is a multiple of 10 (0 included), and sends nothing
\* otherwise.
C30_OneUpdateEveryTenthTick ==
    \A d \in Drones :
        Returned(d) =>
            IF last[d].timestep % 10 = 0
            THEN /\ Len(last[d].sent) = 1
                 /\ last[d].sent[1].recipient \in Drones \ {d}
                 /\ last[d].sent[1].message =
                        [type |-> "position_update", position |-> OwnPos(d),
                         mode |-> last[d].mode]
            ELSE last[d].sent = << >>

\* at timestep 10 an agent that entered the tick hovering and selected
\* avoid has sent one update, to its peer, with mode avoid
C30_Witness ==
    \E d \in Drones :
        /\ Returned(d)
        /\ last[d].timestep = 10
        /\ last[d].mode0 = "hover" /\ last[d].mode = "avoid"
        /\ Len(last[d].sent) = 1
        /\ last[d].sent[1].recipient = PeerName(d)
        /\ last[d].sent[1].message.mode = "avoid"

\* the position_update messages among the messages of the call
UpdateIndexes(d) ==
    {i \in DOMAIN last[d].messages :
        LET p == last[d].messages[i].payload
        IN  "type" \in DOMAIN p /\ p.type = "position_update"}

\* the position of the last of them, or the position held before the call
UpdatedPeer(d) ==
    LET I == UpdateIndexes(d)
    IN  IF I = { } THEN last[d].peer0
        ELSE last[d].messages[CHOOSE i \in I : \A j \in I : j <= i].payload.position

\* C32: position updates are applied before the mode is evaluated: the
\* peer position after the call is that of the last position_update of the
\* call's messages (the one held before when there is none, whatever other
\* messages came), and the peer rule of the same call uses it: within
\* 1.5 x safe_distance of it the mode is avoid and the steering points away
\* from it; otherwise, without a near obstacle, the call does not select
\* avoid.
C32_UpdatesAppliedBeforeMode ==
    \A d \in Drones :
        Returned(d) =>
            LET e  == UpdatedPeer(d)
                ex == IF e = None THEN 0 ELSE e.x - OwnPos(d).x
                ey == IF e = None THEN 0 ELSE e.y - OwnPos(d).y
                ez == IF e = None THEN 0 ELSE e.z - OwnPos(d).z
                e2 == ex * ex + ey * ey + ez * ez
                near == e # None /\ 4 * e2 < 9 * safe_distance * safe_distance
            IN  /\ last[d].peer = e
                /\ other_drone_position[d] = e
                /\ near => /\ last[d].mode = "avoid"
                           /\ AwayComponent(Vel(d).x, ex, e2)
                           /\ AwayComponent(Vel(d).y, ey, e2)
                /\ (~near /\ ~NearObstacle(d) /\ last[d].mode0 # "avoid")
                      => last[d].mode # "avoid"

\* an agent that held no peer position and hovered receives two updates in
\* one call; the second one is 3 ahead and 5 below: it selects avoid and
\* steers back
C32_Witness ==
    /\ Returned("Drone2")
    /\ OwnPos("Drone2") = PosB
    /\ last["Drone2"].peer0 = None
    /\ last["Drone2"].mode0 = "hover"
    /\ last["Drone2"].frame.lidar = None
    /\ Len(last["Drone2"].messages) = 2
    /\ last["Drone2"].peer = PosC
    /\ last["Drone2"].mode = "avoid"
    /\ Vel("Drone2").x > 0

\* C39: the stored peer position changes only when a position_update is
\* processed: a call without one keeps the position it held and applies the
\* peer rule to it, and no call takes a stored position back to null.
C39_PeerPositionNeverReset ==
    \A d \in Drones :
        Returned(d) =>
            /\ UpdateIndexes(d) = { } =>
                  /\ last[d].peer = last[d].peer0
                  /\ PeerNear(d) => last[d].mode = "avoid"
            /\ last[d].peer0 # None => last[d].peer # None

\* C40: when the stored peer position is the agent's own position, the
\* call returns a command whose three components are numbers within the
\* envelope.
C40_ZeroDistanceCommandDefined ==
    \A d \in Drones :
        (Evaluated(d) /\ last[d].peer = OwnPos(d)) =>
            /\ ~last[d].raised
            /\ last[d].command # None
            /\ Vel(d).x # NaN /\ -3000 <= Vel(d).x /\ Vel(d).x <= 3000
            /\ Vel(d).y # NaN /\ -3000 <= Vel(d).y /\ Vel(d).y <= 3000
            /\ Vel(d).z # NaN /\ -2000 <= Vel(d).z /\ Vel(d).z <= 2000

----------------------------------------------------------------------------
\* Properties of the bridge (checked under SpecBridge)

\* the bridge is about to receive, from endpoint s, a well-formed envelope
\* whose recipient is no registered drone name
TakesUnroutable(s) ==
    /\ bridge.alive
    /\ bridge.held = None
    /\ drone_names[bridge.pos] = s
    /\ toBridge[s] # << >>
    /\ LET l == JsonLoads(Head(toBridge[s]))
       IN  /\ l.ok
           /\ {"sender", "recipient", "payload"} \subseteq DOMAIN l.value
           /\ l.value.recipient \notin Drones

\* C3: when the bridge takes an envelope whose recipient is not registered,
\* it drops it (nothing is written to any endpoint), no exception is raised
\* (the pass goes on at the next endpoint), and every other pending
\* envelope stays where it was.
C3_UnknownRecipientDropped ==
    [][ \A s \in Drones :
          (BridgeStep /\ TakesUnroutable(s)) =>
              /\ toDrone' = toDrone
              /\ toBridge' = [toBridge EXCEPT ![s] = Tail(@)]
              /\ bridge'.forward_log = bridge.forward_log
              /\ bridge'.errors = bridge.errors
              /\ bridge'.alive
              /\ bridge'.pos = NextPos(bridge.pos) ]_vars

\* an envelope for an unregistered recipient was logged and dropped, and an
\* envelope logged after it was forwarded
C3_Witness ==
    /\ bridge.alive
    /\ bridge.errors = 0
    /\ \E i, j \in DOMAIN bridge.message_log :
          /\ i < j
          /\ bridge.message_log[i].recipient \notin Drones
          /\ \A k \in DOMAIN bridge.forward_log :
                bridge.forward_log[k].message # JsonDumps(bridge.message_log[i])
          /\ \E k \in DOMAIN bridge.forward_log :
                bridge.forward_log[k].message = JsonDumps(bridge.message_log[j])

\* C4: every envelope is written to at most one endpoint, the one registered
\* under its recipient field; none is forwarded twice or to an endpoint of
\* another name.
C4_ForwardedOnceToRecipient ==
    /\ \A i \in DOMAIN bridge.forward_log :
          LET e == bridge.forward_log[i]
          IN  /\ JsonLoads(e.message).ok
              /\ e.to \in Drones
              /\ e.to = JsonLoads(e.message).value.recipient
              /\ \A j \in DOMAIN bridge.forward_log :
                    j # i => bridge.forward_log[j].message # e.message
    /\ \A d \in Drones : \A k \in DOMAIN toDrone[d] :
          /\ JsonLoads(toDrone[d][k]).ok
          /\ JsonLoads(toDrone[d][k]).value.recipient = d
          /\ \A k2 \in DOMAIN toDrone[d] : k2 # k => toDrone[d][k2] # toDrone[d][k]

C4_Witness ==
    /\ Len(bridge.forward_log) = 2
    /\ bridge.forward_log[1].to # bridge.forward_log[2].to
    /\ JsonLoads(bridge.forward_log[1].message).value.sender = bridge.forward_log[1].to
    /\ toDrone["Drone1"] # << >>

\* the bridge is about to take from endpoint s an envelope that names its
\* sender and the registered recipient r, whatever its payload
TakesAddressed(s, r) ==
    /\ bridge.alive
    /\ bridge.held = None
    /\ drone_names[bridge.pos] = s
    /\ toBridge[s] # << >>
    /\ LET l == JsonLoads(Head(toBridge[s]))
       IN  /\ l.ok
           /\ {"sender", "recipient"} \subseteq DOMAIN l.value
           /\ l.value.recipient = r

\* C29: routing does not depend on the payload: an envelope that names its
\* sender and a registered recipient is written to that recipient's endpoint
\* (at once, or when the endpoint has room) and raises no error, whatever
\* its payload is and also when it has none, with logging on or off.
C29_RoutingIgnoresPayload ==
    [][ \A s \in Drones : \A r \in Drones :
          (BridgeStep /\ TakesAddressed(s, r)) =>
              /\ bridge'.errors = bridge.errors
              /\ \/ toDrone' = [toDrone EXCEPT ![r] = Append(@, Head(toBridge[s]))]
                 \/ bridge'.held = [message |-> Head(toBridge[s]), to |-> <<r>>] ]_vars

\* the envelopes of sender a for recipient b among the texts of a pipe, by
\* position
PairIndexes(buffer, a, b) ==
    {i \in DOMAIN buffer :
        LET l == JsonLoads(buffer[i])
        IN  /\ l.ok
            /\ {"sender", "recipient"} \subseteq DOMAIN l.value
            /\ l.value.sender = a
            /\ l.value.recipient = b}

\* the time of creation of the i-th text of a pipe
Stamp(buffer, i) == JsonLoads(buffer[i]).value.timestamp

\* C35: for every sender a and registered recipient b, the bridge writes
\* a's envelopes to b's endpoint in the order a sent them: they were
\* forwarded in that order, they lie in b's pipe in that order, and each of
\* them was sent before every envelope of a for b that is still held by
\* the bridge or waiting in a's pipe.
C35_PerPairFifo ==
    \A a \in Drones : \A b \in Drones :
        LET log == [i \in DOMAIN bridge.forward_log |-> bridge.forward_log[i].message]
            F == PairIndexes(log, a, b)
            D == PairIndexes(toDrone[b], a, b)
            W == PairIndexes(toBridge[a], a, b)
            H == IF bridge.held = None THEN << >> ELSE <<bridge.held.message>>
            G == PairIndexes(H, a, b)
        IN  /\ \A i \in F : \A j \in F : i < j => Stamp(log, i) < Stamp(log, j)
            /\ \A i \in D : \A j \in D : i < j => Stamp(toDrone[b], i) < Stamp(toDrone[b], j)
            /\ \A i \in W : \A j \in W : i < j => Stamp(toBridge[a], i) < Stamp(toBridge[a], j)
            /\ \A i \in F : \A j \in G : Stamp(log, i) < Stamp(H, j)
            /\ \A i \in F : \A j \in W : Stamp(log, i) < Stamp(toBridge[a], j)
            /\ \A i \in G : \A j \in W : Stamp(H, i) < Stamp(toBridge[a], j)

\* two envelopes of one sender for one recipient were forwarded with an
\* envelope of the other sender between them, and both lie in the
\* recipient's pipe
C35_Witness ==
    /\ Len(bridge.forward_log) = 3
    /\ LET e == [i \in 1..3 |-> JsonLoads(bridge.forward_log[i].message).value]
       IN  /\ e[1].sender = e[3].sender
           /\ e[2].sender # e[1].sender
           /\ e[1].recipient = e[3].recipient
           /\ PairIndexes(toDrone[e[1].recipient], e[1].sender, e[1].recipient) = {1, 2}

\* the bridge process has received an envelope from a sender's endpoint and
\* has not written it to the recipient's endpoint
HoldsEnvelope == bridge.held # None

\* C22: a stopped bridge has forwarded (or dropped for an unknown recipient)
\* every envelope it had received: the process ends between two polls,
\* never between receiving an envelope and forwarding it.
C22_StoppedBridgeHoldsNothing ==
    ~bridge.alive => ~HoldsEnvelope

----------------------------------------------------------------------------
\* Liveness of the bridge (checked under SpecFlood and SpecBackedUp)

\* the next text the bridge will take from endpoint s is a well-formed
\* envelope addressed to a registered recipient in `to`
RoutablePending(s, to) ==
    /\ toBridge[s] # << >>
    /\ LET l == JsonLoads(Head(toBridge[s]))
       IN  /\ l.ok
           /\ {"sender", "recipient", "payload"} \subseteq DOMAIN l.value
           /\ l.value.recipient \in to

\* C19: malformed envelopes of one endpoint never halt the routing for the
\* others: with an endpoint that keeps sending malformed texts, a
\* well-formed envelope pending at any endpoint and addressed to a
\* registered recipient is eventually taken and forwarded.
C19_MalformedNeverHaltsOthers ==
    \A s \in Drones : RoutablePending(s, Drones) ~> ~RoutablePending(s, Drones)

\* C20: a backed-up agent starves no other: when one agent never reads its
\* endpoint, the bridge does not block for ever on it, and an envelope
\* pending at any endpoint for an agent that does read is eventually taken
\* and forwarded.
C20_BackedUpAgentStarvesNone ==
    \A s \in Drones :
        RoutablePending(s, Drones \ {BackedUp})
            ~> ~RoutablePending(s, Drones \ {BackedUp})

----------------------------------------------------------------------------
\* Properties of the control loop (checked under SpecLoop)

\* C2: the frames enqueued for persistence carry the timesteps 0, 1, 2, ...
\* with none skipped or repeated, whatever messages arrive and whatever the
\* policy returns; the loop's timestep is the number of completed ticks.
C2_TimestepsConsecutive ==
    \A d \in Drones :
        /\ \A i \in DOMAIN enqueued[d] : enqueued[d][i] = i - 1
        /\ timestep[d] <= Len(enqueued[d])
        /\ Len(enqueued[d]) <= timestep[d] + 1
        /\ (pc[d] = "loop" => Len(enqueued[d]) = timestep[d])

\* two ticks done, the second with a message handed to the policy
C2_Witness ==
    \E d \in Drones :
        /\ enqueued[d] = <<0, 1>>
        /\ timestep[d] = 2
        /\ last[d].messages # << >>
        /\ last[d].mode = "avoid"

\* the step is the tick of agent d in which the call `what` raised
LoopEndsOn(d, what) == loop_error[d] = "none" /\ loop_error'[d] \in what

\* the step completes a tick of agent d: the loop is still running and the
\* timestep has advanced
TickCompletes(d) ==
    /\ running'[d]
    /\ pc'[d] = "loop"
    /\ timestep'[d] = timestep[d] + 1

\* C13: once cleanup has set running to False no further frame is enqueued,
\* and every frame enqueued before has been taken from sensor_data_queue
\* and saved when cleanup returns: the queue is empty at process exit.
C13_QueueEmptyAtExit ==
    \A d \in Drones :
        /\ (~running[d] /\ pc[d] \in {"cleanup", "stopped"})
              => Len(enqueued[d]) <= timestep[d] + 1
        /\ pc[d] = "stopped" => sensor_data_queue[d] = << >>

\* C14: the number of frames waiting between the control loop and the
\* persistence thread never exceeds a fixed capacity: a capacity smaller
\* than the number of ticks of the run is respected when the persistence
\* thread is slow.
C14_QueueBounded ==
    \A d \in Drones : Len(sensor_data_queue[d]) < MaxTick

\* C15: when compute_control raises in a tick, the exception is caught
\* inside that tick, the loop stays running and goes on with the next
\* timestep.
C15_PolicyExceptionCaught ==
    [][ \A d \in Drones :
          LoopEndsOn(d, {"compute_control"}) => TickCompletes(d) ]_vars

\* C16: when the read of one sensor fails in collect_sensor_data, the frame
\* is still enqueued for persistence and the tick runs to completion.
C16_SensorFailureKeepsTick ==
    [][ \A d \in Drones :
          LoopEndsOn(d, SensorReads) =>
              /\ enqueued'[d] = Append(enqueued[d], timestep[d])
              /\ TickCompletes(d) ]_vars

\* C17: when issuing the command to the vehicle fails in a tick, the
\* control loop does not stop: the tick completes and the next one is run.
C17_ActuationFailureKeepsLoop ==
    [][ \A d \in Drones :
          LoopEndsOn(d, {"execute_control"}) => TickCompletes(d) ]_vars

\* C18: when the write of a frame's point cloud fails, the persistence
\* thread lives on and keeps consuming, and the telemetry of the failing
\* frame and of the later ones is accumulated: while the agent runs, every
\* enqueued frame is either waiting in the queue or has its telemetry in
\* telemetry_data.
C18_WriteFailureKeepsTelemetry ==
    \A d \in Drones :
        /\ data_collection_thread[d] # "dead"
        /\ running[d] =>
              Len(telemetry_data[d]) + Len(sensor_data_queue[d]) = Len(enqueued[d])

----------------------------------------------------------------------------
\* Properties of sending (checked under SpecSend)

\* the control loop of agent d is in a tick whose send_message call does
\* not return: a position update is due and the pipe has no room for it
SendBlocks(d) ==
    /\ pc[d] = "loop"
    /\ running[d]
    /\ "send" \in EndpointMethods(communication_pipe[d])
    /\ SendDue(timestep[d])
    /\ ~SendReturns(toBridge[d], 1)

\* C21: sending does not block: send_message returns without waiting for
\* the bridge or the recipient, so no tick waits in it, also when nothing
\* drains the outbound pipe.
C21_SendNeverBlocks ==
    \A d \in Drones : ~SendBlocks(d)

----------------------------------------------------------------------------
\* Properties of the threads of one controller (checked under SpecLoop)

\* a step of the persistence thread or of the communication thread of d
ThreadStep(d) ==
    \/ DataStep(d)
    \/ DataExit(d)
    \/ CommStep(d)
    \/ CommError(d)
    \/ CommExit(d)

\* C31 (as claimed): the persistence and communication threads write none of
\* mode, peer position and timestep, and the only data they share with the
\* control thread are the frame queue and the inbound-message queue: a
\* step of theirs changes nothing but the two queues and its own position.
C31_ThreadsShareOnlyQueues ==
    [][ \A d \in Drones :
          ThreadStep(d) =>
              UNCHANGED <<pc, communication_pipe, running, timestep, mode,
                          other_drone_position, telemetry_data, enqueued, loop_error,
                          cleanup_error, last, clock, toBridge, toDrone, bridge,
                          main>> ]_vars

\* C31 (amended): the persistence and communication threads write none of
\* mode, peer position and timestep, nor the running flag they read; besides
\* the two queues they write the telemetry list, which cleanup reads, and
\* take messages from the endpoint the control thread sends on.
C31_ThreadsLeaveAgentState ==
    [][ \A d \in Drones :
          ThreadStep(d) =>
              UNCHANGED <<pc, communication_pipe, running, timestep, mode,
                          other_drone_position, enqueued, loop_error, cleanup_error,
                          last, clock, toBridge, bridge, main>> ]_vars

\* both threads have acted (a telemetry row saved, an update received) and
\* the control thread has ticked twice, stored the peer position and
\* selected avoid
C31_Witness ==
    \E d \in LoopDrones :
        /\ telemetry_data[d] # << >>
        /\ timestep[d] = 2
        /\ other_drone_position[d] = PosB
        /\ mode[d] = "avoid"
        /\ running[d]

\* a text the communication thread cannot use: json.loads rejects it, or
\* the packet has no recipient
Unreadable(w) ==
    LET l == JsonLoads(w)
    IN  ~l.ok \/ "recipient" \notin DOMAIN l.value

\* C33: an unreadable envelope is dropped by the communication thread and
\* does not stop it: the thread takes it out of the pipe and queues
\* nothing, goes on from its except clause, is alive as long as the agent
\* is running, and queues the readable envelopes addressed to the agent
\* that it receives.
C33_UnreadableDroppedThreadGoesOn ==
    /\ [](\A d \in LoopDrones :
            (running[d] /\ pc[d] = "loop") => comm_thread[d] = "alive")
    /\ [][ \A d \in LoopDrones :
            /\ (CommStep(d) /\ Unreadable(Head(toDrone[d]))) =>
                  /\ toDrone'[d] = Tail(toDrone[d])
                  /\ message_queue' = message_queue
                  /\ comm_thread'[d] = "alive"
            /\ CommError(d) => comm_thread'[d] = "alive" /\ ~comm_error'[d]
            /\ (CommStep(d) /\ ~Unreadable(Head(toDrone[d]))
                  /\ JsonLoads(Head(toDrone[d])).value.recipient = d) =>
                  message_queue'[d] =
                      Append(message_queue[d], JsonLoads(Head(toDrone[d])).value) ]_vars

\* the communication thread of a running agent is in its except clause
\* after an unreadable envelope, and a position update for the agent has
\* arrived behind it
C33_Witness ==
    \E d \in LoopDrones :
        /\ running[d] /\ comm_thread[d] = "alive"
        /\ comm_error[d]
        /\ toDrone[d] # << >>
        /\ ~Unreadable(Head(toDrone[d]))
        /\ JsonLoads(Head(toDrone[d])).value.recipient = d

\* C34: the inbound message queue of an agent holds only envelopes whose
\* recipient is the agent, and so do the messages handed to
\* compute_control: an envelope for another recipient that reaches the
\* agent's endpoint is taken from the pipe and discarded.
C34_InboxHoldsOwnEnvelopes ==
    \A d \in LoopDrones :
        /\ \A i \in DOMAIN message_queue[d] : message_queue[d][i].recipient = d
        /\ last[d] # None =>
              \A i \in DOMAIN last[d].messages : last[d].messages[i].recipient = d

\* both envelopes the environment sent have been received, the one for the
\* agent is queued and the other one is not
C34_Witness ==
    \E d \in LoopDrones :
        /\ clock = MaxDeliver
        /\ toDrone[d] = << >>
        /\ ~comm_error[d]
        /\ timestep[d] = 0 /\ last[d] = None
        /\ Len(message_queue[d]) = 1
        /\ message_queue[d][1].payload.type = "position_update"

\* the timesteps of the accumulated telemetry rows, and of the frames
\* waiting in the persistence queue
SavedTimesteps(d) == [i \in DOMAIN telemetry_data[d] |-> telemetry_data[d][i].timestep]

WaitingTimesteps(d) ==
    [i \in DOMAIN sensor_data_queue[d] |-> sensor_data_queue[d][i].timestep]

\* C36: the telemetry rows are in strictly increasing timestep order, and
\* every frame taken from the persistence queue has been saved exactly
\* once, in the order of enqueueing: the rows followed by the frames still
\* waiting are the frames the control loop enqueued.
C36_EveryTakenFrameSavedOnce ==
    \A d \in LoopDrones :
        /\ \A i \in DOMAIN telemetry_data[d] : \A j \in DOMAIN telemetry_data[d] :
              i < j => telemetry_data[d][i].timestep < telemetry_data[d][j].timestep
        /\ SavedTimesteps(d) \o WaitingTimesteps(d) = enqueued[d]

\* cleanup of agent d is past its read of the telemetry list
TelemetryRead(d) == pc[d] \in {"stopped", "raised", "hung"}

\* C37: the telemetry list is never accessed by two threads at once: only
\* a step of the persistence thread changes it, and cleanup reads it only
\* after the persistence thread has ended and been joined, after which it
\* does not change.
C37_TelemetryReadAfterJoin ==
    /\ [](\A d \in LoopDrones :
            TelemetryRead(d) => data_collection_thread[d] \in {"done", "dead"})
    /\ [][ \A d \in LoopDrones :
            /\ telemetry_data'[d] # telemetry_data[d] =>
                  DataStep(d) /\ data_collection_thread[d] = "alive"
            /\ CleanupDone(d) => data_collection_thread[d] \in {"done", "dead"}
            /\ TelemetryRead(d) => telemetry_data'[d] = telemetry_data[d] ]_vars

\* cleanup has written a table of two rows after the persistence thread
\* returned
C37_Witness ==
    \E d \in LoopDrones :
        /\ pc[d] = "stopped"
        /\ data_collection_thread[d] = "done"
        /\ Len(telemetry_data[d]) = 2

\* C38: the mode is always one of hover, explore and avoid; it is hover
\* until the control loop starts, and once it is explore or avoid no step
\* makes it hover again.
C38_ModeNeverBackToHover ==
    /\ [](\A d \in LoopDrones :
            /\ mode[d] \in {"hover", "explore", "avoid"}
            /\ pc[d] = "new" => mode[d] = "hover")
    /\ [][ \A d \in LoopDrones : mode[d] # "hover" => mode'[d] # "hover" ]_vars

\* the first tick selected explore, and the second, with no point cloud and
\* no peer position, has kept it
C38_Witness ==
    \E d \in LoopDrones :
        /\ timestep[d] = 2
        /\ last[d].mode0 = "explore"
        /\ last[d].frame.lidar = None
        /\ last[d].peer = None
        /\ mode[d] = "explore"

----------------------------------------------------------------------------
\* Properties of cleanup (checked under SpecLoop and FairLoop)

\* cleanup of agent d has ended, by returning or by an exception
CleanupEnded(d) == pc[d] \in {"stopped", "raised"}

\* cleanup of agent d has called landAsync
LandIssued(d) == pc[d] = "stopped" \/ cleanup_error[d] \in {"land", "land_hangs"}

\* C26: shutdown of an agent always terminates: cleanup waits for its two
\* threads for a bounded time only, so an agent in cleanup eventually leaves
\* the joins, also when a thread never exits.
C26_CleanupLeavesJoins ==
    \A d \in LoopDrones :
        (pc[d] = "cleanup") ~> (pc[d] \in {"stopped", "raised", "hung"})

\* C27: a failure of the shutdown actuation is contained in cleanup: when
\* landing raises or does not complete, control_loop still returns and the
\* agent is stopped.
C27_LandFailureContained ==
    \A d \in LoopDrones :
        (cleanup_error[d] \in {"land", "land_hangs"}) => pc[d] = "stopped"

\* C28: on every path by which a control loop stops, cleanup issues the
\* final landing: once cleanup has ended, by returning or by an exception,
\* landAsync has been called.
C28_LandAlwaysIssued ==
    \A d \in LoopDrones : CleanupEnded(d) => LandIssued(d)

----------------------------------------------------------------------------
\* Properties of the supervisor (checked under Spec)

\* control_loop of agent d has been entered
LoopStarted(d) == data_collection_thread[d] # "none"

\* C23: the supervisor tears down top-down: it stops the bridge before it
\* terminates any agent process, and when main returns the bridge process
\* and every agent process have ended, whether the wait loop was left by a
\* stop signal or because every agent had ended.
C23_TeardownTopDown ==
    /\ main.pc \in {"agents", "returned"} => ~bridge.alive
    /\ bridge.alive => \A d \in Drones : pc[d] # "terminated"
    /\ main.pc = "returned" => \A d \in Drones : ~IsAlive(d)
    /\ main.pc = "wait" => bridge.alive /\ \A d \in Drones : pc[d] # "terminated"

\* main has returned after a stop signal that found one agent in its loop
\* and the other already stopped by itself
C23_Witness ==
    /\ main.pc = "returned"
    /\ main.signal
    /\ ~bridge.alive
    /\ \E d \in Drones :
          /\ pc[d] = "terminated"
          /\ LoopStarted(d)
          /\ pc[PeerName(d)] = "stopped"

\* C24: no agent whose control loop was running is terminated by the
\* supervisor: each completes its cleanup and writes its telemetry table
\* before its process ends.
C24_AgentsFinishCleanup ==
    \A d \in Drones : pc[d] = "terminated" => ~LoopStarted(d)

\* C25: when the constructor of one agent fails, and no stop signal has
\* come, only that agent's process ends: the bridge process stays alive
\* while any agent is alive, no agent is terminated, and the supervisor stays
\* in its wait loop until every agent has ended.
C25_StartupFailureIsLocal ==
    (~main.signal /\ \E d \in Drones : pc[d] = "failed") =>
        /\ \A e \in Drones : pc[e] # "terminated"
        /\ (\E e \in Drones : IsAlive(e)) => bridge.alive /\ main.pc = "wait"

\* one agent failed at startup; its sibling has completed a tick and the
\* bridge has forwarded the sibling's position update
C25_Witness ==
    /\ ~main.signal
    /\ main.pc = "wait"
    /\ \E d \in Drones :
          /\ pc[d] = "failed"
          /\ pc[PeerName(d)] = "loop"
          /\ timestep[PeerName(d)] = 1
          /\ \E i \in DOMAIN bridge.forward_log : bridge.forward_log[i].to = d

----------------------------------------------------------------------------
\* Properties of the launched system (checked under FairSpec)

\* C1 (as claimed): in the launched system, an envelope the bridge has
\* written to the endpoint of a running agent is eventually placed in that
\* agent's inbound message queue (from where the next tick hands it to
\* compute_control), unless the agent stops or its process is terminated.
C1_EnvelopeReachesInbox ==
    \A b \in Drones :
        (toDrone[b] # << >> /\ running[b])
            ~> (message_queue[b] # << >> \/ ~running[b] \/ ~IsAlive(b))

====
